---- MODULE Spec2Model ----
(***************************************************************************)
(* FL_PathAnimator.animate_paths (src/nodes/FL_PathAnimator.py) as a state *)
(* machine: parse -> canvas scaling -> length rescaling -> global timeline *)
(* override -> frame loop -> coordinate track export -> return.            *)
(*                                                                         *)
(* Python floats are modelled by exact rationals <<n, d>> (d > 0, lowest   *)
(* terms).  math.sqrt is exact on the inputs drawn here (every segment     *)
(* length is rational); Sqrt has no value otherwise.                       *)
(***************************************************************************)
EXTENDS Integers, Sequences, FiniteSets, TLC

(* ------------------------------ bounds --------------------------------- *)
MaxFrames == 5
MaxPaths == 2

(* ------------------------- program constants --------------------------- *)
NumSamples == 121
(* the last index of the 121-point resampling, as written at lines 490-491 *)
LastIndex == 120

(* --------------------------- rational numbers -------------------------- *)
Abs(a) == IF a < 0 THEN -a ELSE a

RECURSIVE GCD(_, _)
GCD(a, b) == IF b = 0 THEN a ELSE GCD(b, a % b)

Rat(n, d) ==
    LET g == GCD(Abs(n), Abs(d))
        s == IF d < 0 THEN -1 ELSE 1
    IN  << (s * n) \div g, Abs(d) \div g >>

I(n) == << n, 1 >>
Zero == I(0)
One == I(1)

RAdd(a, b) ==
    LET g == GCD(a[2], b[2])
    IN  Rat(a[1] * (b[2] \div g) + b[1] * (a[2] \div g), (a[2] \div g) * b[2])
RNeg(a) == << -a[1], a[2] >>
RSub(a, b) == RAdd(a, RNeg(b))
RMul(a, b) ==
    LET g1 == GCD(Abs(a[1]), b[2])
        g2 == GCD(Abs(b[1]), a[2])
    IN  Rat((a[1] \div g1) * (b[1] \div g2), (a[2] \div g2) * (b[2] \div g1))
RInv(a) == IF a[1] < 0 THEN << -a[2], -a[1] >> ELSE << a[2], a[1] >>
RDiv(a, b) == RMul(a, RInv(b))
RLe(a, b) ==
    LET g == GCD(a[2], b[2])
    IN  a[1] * (b[2] \div g) <= b[1] * (a[2] \div g)
RLt(a, b) == RLe(a, b) /\ a # b
RMin(a, b) == IF RLe(a, b) THEN a ELSE b
RMax(a, b) == IF RLe(a, b) THEN b ELSE a
RAbs(a) == << Abs(a[1]), a[2] >>

RECURSIVE ISqrtSearch(_, _, _)
ISqrtSearch(n, lo, hi) ==
    IF lo >= hi THEN lo
    ELSE LET mid == (lo + hi + 1) \div 2
         IN  IF mid * mid <= n THEN ISqrtSearch(n, mid, hi)
                               ELSE ISqrtSearch(n, lo, mid - 1)
(* the exact integer root; undefined when n is not a perfect square *)
ISqrt(n) == CHOOSE r \in {ISqrtSearch(n, 0, n)} : r * r = n
Sqrt(a) == << ISqrt(a[1]), ISqrt(a[2]) >>

(* Python round(): round half to even, then int() *)
PyRound(a) ==
    LET fl == a[1] \div a[2]
        rem == a[1] - fl * a[2]
    IN  IF 2 * rem < a[2] THEN fl
        ELSE IF 2 * rem > a[2] THEN fl + 1
        ELSE IF fl % 2 = 0 THEN fl ELSE fl + 1

(* ------------------------------ helpers -------------------------------- *)
Pt(x, y) == [x |-> x, y |-> y]
(* dict.get(key, default) *)
Get(d, key, default) == IF key \in DOMAIN d THEN d[key] ELSE default
(* the unit fraction 1e-6 and the literal 0.01 *)
Epsilon == << 1, 1000000 >>
Hundredth == << 1, 100 >>

(* --------------------------- apply_interpolation ----------------------- *)
apply_interpolation(t, interpolation_type) ==
    IF interpolation_type = "ease-in" THEN RMul(t, t)
    ELSE IF interpolation_type = "ease-out" THEN RMul(t, RSub(I(2), t))
    ELSE IF interpolation_type = "ease-in-out" THEN
        IF RLt(t, << 1, 2 >>) THEN RMul(I(2), RMul(t, t))
        ELSE RAdd(I(-1), RMul(RSub(I(4), RMul(I(2), t)), t))
    ELSE t

(* ------------------------------ geometry ------------------------------- *)
SegLength(points, i) ==
    LET dx == RSub(points[i + 1].x, points[i].x)
        dy == RSub(points[i + 1].y, points[i].y)
    IN  Sqrt(RAdd(RMul(dx, dx), RMul(dy, dy)))

RECURSIVE CumulativeLengths(_, _, _)
(* cumulative_lengths of resample_path_uniform: acc holds the entries for  *)
(* points 1..i                                                             *)
CumulativeLengths(points, i, acc) ==
    IF i >= Len(points) THEN acc
    ELSE CumulativeLengths(points, i + 1,
                           Append(acc, RAdd(acc[Len(acc)], SegLength(points, i))))

RECURSIVE FindSegment(_, _, _)
(* the first j (1-based) with cum[j] <= target <= cum[j+1]; 0 when the     *)
(* for-loop runs to its else clause                                        *)
FindSegment(cum, target, j) ==
    IF j >= Len(cum) THEN 0
    ELSE IF RLe(cum[j], target) /\ RLe(target, cum[j + 1]) THEN j
    ELSE FindSegment(cum, target, j + 1)

resample_path_uniform(points, num_samples) ==
    IF Len(points) = 0 THEN << >>
    ELSE IF Len(points) = 1 THEN
        [i \in 1..num_samples |-> Pt(points[1].x, points[1].y)]
    ELSE
        LET cumulative_lengths == CumulativeLengths(points, 1, << Zero >>)
            total_length == cumulative_lengths[Len(cumulative_lengths)]
            Sample(i) ==
                LET target_length ==
                        IF num_samples = 1 THEN Zero
                        ELSE RMul(Rat(i, num_samples - 1), total_length)
                    j == FindSegment(cumulative_lengths, target_length, 1)
                IN  IF j = 0 THEN Pt(points[Len(points)].x, points[Len(points)].y)
                    ELSE LET seg_length == RSub(cumulative_lengths[j + 1],
                                                cumulative_lengths[j])
                             t == IF RLt(Zero, seg_length)
                                  THEN RDiv(RSub(target_length, cumulative_lengths[j]),
                                            seg_length)
                                  ELSE Zero
                         IN  Pt(RAdd(points[j].x,
                                     RMul(t, RSub(points[j + 1].x, points[j].x))),
                                RAdd(points[j].y,
                                     RMul(t, RSub(points[j + 1].y, points[j].y))))
        IN  IF total_length = Zero THEN
                [i \in 1..num_samples |-> Pt(points[1].x, points[1].y)]
            ELSE [i \in 1..num_samples |-> Sample(i - 1)]

RECURSIVE ArcLengthFrom(_, _)
ArcLengthFrom(points, i) ==
    IF i >= Len(points) THEN Zero
    ELSE RAdd(SegLength(points, i), ArcLengthFrom(points, i + 1))

get_path_arc_length(points) ==
    IF Len(points) < 2 THEN Zero ELSE ArcLengthFrom(points, 1)

RECURSIVE WalkSegments_NoOffset(_, _, _, _)
(* mutant: segment_t is taken from the target distance itself, without     *)
(* subtracting the distance already travelled                              *)
WalkSegments_NoOffset(points, target_distance, i, current_distance) ==
    IF i >= Len(points) THEN Pt(points[Len(points)].x, points[Len(points)].y)
    ELSE LET seg_length == SegLength(points, i)
         IN  IF RLe(target_distance, RAdd(current_distance, seg_length)) THEN
                 LET segment_t == IF RLt(Zero, seg_length)
                                  THEN RDiv(target_distance, seg_length)
                                  ELSE Zero
                 IN  Pt(RAdd(points[i].x,
                             RMul(RSub(points[i + 1].x, points[i].x), segment_t)),
                        RAdd(points[i].y,
                             RMul(RSub(points[i + 1].y, points[i].y), segment_t)))
             ELSE WalkSegments_NoOffset(points, target_distance, i + 1,
                                        RAdd(current_distance, seg_length))

RECURSIVE WalkSegments(_, _, _, _)
(* the for-loop of interpolate_path over segment_lengths, from segment i   *)
(* with current_distance travelled so far                                  *)
WalkSegments(points, target_distance, i, current_distance) ==
    IF i >= Len(points) THEN Pt(points[Len(points)].x, points[Len(points)].y)
    ELSE LET seg_length == SegLength(points, i)
         IN  IF RLe(target_distance, RAdd(current_distance, seg_length)) THEN
                 LET segment_t == IF RLt(Zero, seg_length)
                                  THEN RDiv(RSub(target_distance, current_distance),
                                            seg_length)
                                  ELSE Zero
                 IN  Pt(RAdd(points[i].x,
                             RMul(RSub(points[i + 1].x, points[i].x), segment_t)),
                        RAdd(points[i].y,
                             RMul(RSub(points[i + 1].y, points[i].y), segment_t)))
             ELSE WalkSegments(points, target_distance, i + 1,
                               RAdd(current_distance, seg_length))

interpolate_path(points, t) ==
    IF Len(points) = 0 THEN Pt(Zero, Zero)
    ELSE IF Len(points) = 1 THEN Pt(points[1].x, points[1].y)
    ELSE LET total_length == ArcLengthFrom(points, 1)
         IN  IF total_length = Zero THEN Pt(points[1].x, points[1].y)
             ELSE WalkSegments(points, RMul(t, total_length), 1, Zero)

(* ------------------------------- inputs -------------------------------- *)
EmptyRec == [k \in {} |-> k]
(* an optional key of a JSON object: o is << >> (absent) or << value >> *)
Opt(key, o) == IF o = << >> THEN EmptyRec ELSE key :> o[1]

IPt(x, y) == Pt(I(x), I(y))
NoPoints == << >>
OnePoint == << IPt(4, 6) >>
Straight == << IPt(0, 0), IPt(12, 0) >>
Diagonal == << IPt(0, 0), IPt(9, 12) >>
Corner == << IPt(0, 0), IPt(10, 0), IPt(10, 10) >>
Coincident == << IPt(5, 5), IPt(5, 5) >>

MkPath(points, single, vis, timing, interp) ==
    ("points" :> points)
    @@ Opt("isSinglePoint", single)
    @@ Opt("visibilityMode", vis)
    @@ (IF timing = << >> THEN EmptyRec
        ELSE ("startTime" :> timing[1]) @@ ("endTime" :> timing[2]))
    @@ Opt("interpolation", interp)

VisOpts == { << >>, << "pop" >>, << "static" >>, << "fade" >> }
InterpOpts == { << >>, << "ease-in" >>, << "ease-out" >>, << "ease-in-out" >> }
TimingOpts == { << >>, << << 1, 4 >>, << 1, 2 >> >>, << << 3, 4 >>, << 1, 4 >> >>,
                << << 1, 2 >>, << 1, 2 >> >> }
SingleOpts == { << >>, << TRUE >> }
(* << start_time_percent, end_time_percent >> *)
NoOverride == << I(0), I(100) >>
OverrideOpts == { NoOverride, << I(25), I(75) >>, << I(80), I(20) >>,
                  << I(50), I(50) >>, << I(100), I(100) >>,
                  << << 999, 10 >>, I(100) >>, << I(50), << 501, 10 >> >>,
                  << I(0), I(50) >> }

Canvas(w, h) == << [width |-> w, height |-> h] >>
Payload(paths, canvas) ==
    [kind |-> "record", obj |-> ("paths" :> paths) @@ Opt("canvas_size", canvas)]

DefaultArgs ==
    [frame_width |-> 64, frame_height |-> 64, frame_count |-> 3,
     rotation_speed |-> Zero,
     paths_data |-> Payload(<< >>, << >>),
     start_time_percent |-> NoOverride[1], end_time_percent |-> NoOverride[2],
     override_path_length |-> -1, path_length_multiplier |-> One]

(* one path, every visibility mode, per-path window, easing and frame count *)
RenderInputs ==
    { [DefaultArgs EXCEPT !.frame_count = fc, !.rotation_speed = << 1, 2 >>,
                          !.paths_data = Payload(<< MkPath(pts, << >>, vis, tm, ip) >>,
                                                 Canvas(64, 64))] :
        pts \in {Diagonal, Corner}, vis \in VisOpts, tm \in TimingOpts,
        ip \in InterpOpts, fc \in 1..MaxFrames }

(* one path of every shape under every global timeline override *)
ExportInputs ==
    { [DefaultArgs EXCEPT !.frame_count = 5,
                          !.start_time_percent = ov[1], !.end_time_percent = ov[2],
                          !.paths_data = Payload(<< MkPath(pts, sg, vis, << >>, ip) >>,
                                                 << >>)] :
        pts \in {NoPoints, OnePoint, Straight, Corner, Coincident},
        sg \in SingleOpts, vis \in VisOpts, ip \in {<< >>, << "ease-in" >>},
        ov \in OverrideOpts }

(* single-point and isSinglePoint paths under every timing and easing *)
AnchorPaths ==
    { MkPath(OnePoint, sg, vis, tm, ip) :
        sg \in SingleOpts, vis \in {<< "static" >>, << "fade" >>},
        tm \in TimingOpts, ip \in InterpOpts }
    \cup
    { MkPath(pts, << TRUE >>, vis, tm, ip) :
        pts \in {Straight, Corner}, vis \in {<< "static" >>, << "fade" >>},
        tm \in TimingOpts, ip \in InterpOpts }
AnchorInputs ==
    { [DefaultArgs EXCEPT !.frame_count = 5,
                          !.paths_data = Payload(<< p >>, Canvas(64, 64))] :
        p \in AnchorPaths }

(* lists of paths *)
ListPaths ==
    { MkPath(NoPoints, << >>, << >>, << >>, << >>),
      MkPath(OnePoint, << >>, << "static" >>, << >>, << >>),
      MkPath(Straight, << >>, << >>, << >>, << >>),
      MkPath(Corner, << TRUE >>, << "fade" >>, << >>, << >>) }
PathLists == UNION { [1..n -> ListPaths] : n \in (0..MaxPaths) \ {1} }
ListInputs ==
    { [DefaultArgs EXCEPT !.frame_count = 2,
                          !.start_time_percent = ov[1], !.end_time_percent = ov[2],
                          !.paths_data = Payload(ps, Canvas(64, 64))] :
        ps \in PathLists,
        ov \in {NoOverride, << I(25), I(75) >>, << I(100), I(100) >>} }

(* canvas scaling and length rescaling *)
ScaleInputs ==
    { [DefaultArgs EXCEPT !.override_path_length = ol, !.path_length_multiplier = m,
                          !.start_time_percent = ov[1], !.end_time_percent = ov[2],
                          !.paths_data = Payload(<< MkPath(pts, << >>, << >>, << >>, << >>) >>,
                                                 cv)] :
        pts \in {Straight, Corner},
        cv \in {<< >>} \cup { Canvas(w, h) : w \in {0, 32, 64}, h \in {32, 64} },
        ol \in {-1, 0, 30}, m \in {One, I(2), << 1, 2 >>},
        ov \in {NoOverride, << I(25), I(75) >>} }

(* a multiplier within 1e-6 of leaving the length unchanged *)
NearOne == << 20000001, 20000000 >>
NearUnitInputs ==
    { [DefaultArgs EXCEPT !.override_path_length = ol, !.path_length_multiplier = NearOne,
                          !.paths_data = Payload(<< MkPath(Straight, << >>, << >>, << >>, << >>) >>,
                                                 Canvas(64, 64))] :
        ol \in {-1, 0, 12} }

(* payloads that are not a paths record *)
BadPayloadInputs ==
    { [DefaultArgs EXCEPT !.frame_count = fc, !.frame_width = w,
                          !.paths_data = [kind |-> k, obj |-> EmptyRec]] :
        fc \in 1..MaxFrames, w \in {64, 128},
        k \in {"invalid_json", "json_non_record"} }
    \cup
    { [DefaultArgs EXCEPT !.frame_count = fc,
                          !.paths_data = [kind |-> "record", obj |-> EmptyRec]] :
        fc \in 1..MaxFrames }

Inputs == RenderInputs \cup ExportInputs \cup AnchorInputs \cup ListInputs
          \cup ScaleInputs \cup NearUnitInputs \cup BadPayloadInputs

(* ------------------------------- state --------------------------------- *)
VARIABLES
    args,                 \* the arguments of animate_paths
    pc,                   \* position in animate_paths
    paths, canvas_size,   \* parsed payload
    scaled_paths,         \* paths in frame space (scaled, then length-rescaled)
    use_global_timeline, global_start_time, global_end_time,
    frame,                \* the frame loop's index
    images_list, masks_list,
    coord_tracks,
    result,               \* the returned tuple
    fn                    \* a direct call of the two arc-length walks (SpecFn only)

vars == << args, pc, paths, canvas_size, scaled_paths, use_global_timeline,
           global_start_time, global_end_time, frame, images_list, masks_list,
           coord_tracks, result, fn >>

Unset == << >>

Init ==
    /\ args \in Inputs
    /\ pc = "parse"
    /\ paths = << >>
    /\ canvas_size = Unset
    /\ scaled_paths = << >>
    /\ use_global_timeline = FALSE
    /\ global_start_time = Unset
    /\ global_end_time = Unset
    /\ frame = 0
    /\ images_list = << >>
    /\ masks_list = << >>
    /\ coord_tracks = << >>
    /\ result = Unset
    /\ fn = Unset

(* ------------------------- parse (lines 293-301) ----------------------- *)
FrameSize == [width |-> args.frame_width, height |-> args.frame_height]

ParsePathsData ==
    /\ pc = "parse"
    /\ args.paths_data.kind # "json_non_record"
    /\ IF args.paths_data.kind = "record"
       THEN /\ paths' = Get(args.paths_data.obj, "paths", << >>)
            /\ canvas_size' = Get(args.paths_data.obj, "canvas_size", FrameSize)
       ELSE \* json.JSONDecodeError
            /\ paths' = << >>
            /\ canvas_size' = FrameSize
    /\ pc' = "scale"
    /\ UNCHANGED << fn, args, scaled_paths, use_global_timeline, global_start_time,
                    global_end_time, frame, images_list, masks_list,
                    coord_tracks, result >>

(* json.loads returns a value that is not a dict: paths_obj.get raises      *)
(* AttributeError, which the except clause does not catch                   *)
ParseRaises ==
    /\ pc = "parse"
    /\ args.paths_data.kind = "json_non_record"
    /\ pc' = "raised"
    /\ UNCHANGED << fn, args, paths, canvas_size, scaled_paths, use_global_timeline,
                    global_start_time, global_end_time, frame, images_list,
                    masks_list, coord_tracks, result >>

(* ---------------------- canvas scaling (lines 303-325) ----------------- *)
ScaleX ==
    LET canvas_width == Get(canvas_size, "width", args.frame_width)
    IN  IF canvas_width > 0 THEN Rat(args.frame_width, canvas_width) ELSE One
ScaleY ==
    LET canvas_height == Get(canvas_size, "height", args.frame_height)
    IN  IF canvas_height > 0 THEN Rat(args.frame_height, canvas_height) ELSE One

ScaledPath(path, scale_x, scale_y) ==
    LET points == Get(path, "points", << >>)
        scaled_points == [i \in 1..Len(points) |->
                             Pt(RMul(points[i].x, scale_x), RMul(points[i].y, scale_y))]
    IN  ("points" :> scaled_points) @@ path

ScalePaths ==
    /\ pc = "scale"
    /\ scaled_paths' = [k \in 1..Len(paths) |-> ScaledPath(paths[k], ScaleX, ScaleY)]
    /\ pc' = "rescale"
    /\ UNCHANGED << fn, args, paths, canvas_size, use_global_timeline, global_start_time,
                    global_end_time, frame, images_list, masks_list,
                    coord_tracks, result >>

(* ---------------------- length rescaling (lines 327-369) --------------- *)
IsMotionPath(path) ==
    Len(Get(path, "points", << >>)) > 1 /\ ~ Get(path, "isSinglePoint", FALSE)

RECURSIVE ScaleDeltas_FromOriginal(_, _, _, _)
(* mutant: each new point is offset from the original previous point, not  *)
(* from the new one                                                        *)
ScaleDeltas_FromOriginal(points, scale_factor, i, acc) ==
    IF i > Len(points) THEN acc
    ELSE LET dx == RSub(points[i].x, points[i - 1].x)
             dy == RSub(points[i].y, points[i - 1].y)
         IN  ScaleDeltas_FromOriginal(points, scale_factor, i + 1,
                 Append(acc, Pt(RAdd(points[i - 1].x, RMul(dx, scale_factor)),
                                RAdd(points[i - 1].y, RMul(dy, scale_factor)))))

RECURSIVE ScaleDeltas(_, _, _, _)
(* new_points: acc holds the new points 1..i-1 *)
ScaleDeltas(points, scale_factor, i, acc) ==
    IF i > Len(points) THEN acc
    ELSE LET dx == RSub(points[i].x, points[i - 1].x)
             dy == RSub(points[i].y, points[i - 1].y)
             last == acc[Len(acc)]
         IN  ScaleDeltas(points, scale_factor, i + 1,
                         Append(acc, Pt(RAdd(last.x, RMul(dx, scale_factor)),
                                        RAdd(last.y, RMul(dy, scale_factor)))))

RescaledPath(path, override_path_length, path_length_multiplier) ==
    LET effective_override ==
            IF override_path_length > 0 THEN override_path_length ELSE -1
        points == Get(path, "points", << >>)
        original_length == get_path_arc_length(points)
        base_length == IF effective_override > 0 THEN I(effective_override)
                       ELSE original_length
        target_length == RMul(base_length, path_length_multiplier)
        scale_factor == RDiv(target_length, original_length)
    IN  IF ~ IsMotionPath(path) THEN path
        ELSE IF RLe(original_length, Zero) THEN path
        ELSE IF RLt(RAbs(RSub(target_length, original_length)), Epsilon) THEN path
        ELSE [path EXCEPT !["points"] =
                 ScaleDeltas(points, scale_factor, 2, << Pt(points[1].x, points[1].y) >>)]

RescalePaths ==
    /\ pc = "rescale"
    /\ scaled_paths' = [k \in 1..Len(scaled_paths) |->
                           RescaledPath(scaled_paths[k], args.override_path_length,
                                        args.path_length_multiplier)]
    /\ pc' = "timeline"
    /\ UNCHANGED << fn, args, paths, canvas_size, use_global_timeline, global_start_time,
                    global_end_time, frame, images_list, masks_list,
                    coord_tracks, result >>

(* ------------------ global timeline override (lines 371-384) ----------- *)
UseGlobalTimeline(start_time_percent, end_time_percent) ==
    start_time_percent # Zero \/ end_time_percent # I(100)

(* << global_start_time, global_end_time >> *)
GlobalWindow(start_time_percent, end_time_percent) ==
    LET s0 == RMax(Zero, RMin(One, RDiv(start_time_percent, I(100))))
        e0 == RMax(Zero, RMin(One, RDiv(end_time_percent, I(100))))
        s1 == IF RLt(e0, s0) THEN e0 ELSE s0
        e1 == IF RLt(e0, s0) THEN s0 ELSE e0
    IN  IF s1 = e1 THEN << s1, RMin(One, RAdd(s1, Hundredth)) >>
        ELSE << s1, e1 >>

SetGlobalTimeline ==
    /\ pc = "timeline"
    /\ use_global_timeline' =
           UseGlobalTimeline(args.start_time_percent, args.end_time_percent)
    /\ IF use_global_timeline'
       THEN LET w == GlobalWindow(args.start_time_percent, args.end_time_percent)
            IN  /\ global_start_time' = w[1]
                /\ global_end_time' = w[2]
       ELSE UNCHANGED << global_start_time, global_end_time >>
    /\ pc' = "frames"
    /\ UNCHANGED << fn, args, paths, canvas_size, scaled_paths, frame, images_list,
                    masks_list, coord_tracks, result >>

(* ------------------------- frame loop (lines 390-472) ------------------ *)
(* mutant: the clock divides by frame_count, so the last frame stops short of 1 *)
GlobalT_OverFrameCount(f, frame_count) ==
    Rat(f, IF frame_count > 1 THEN frame_count ELSE 1)
GlobalT(f, frame_count) ==
    Rat(f, IF frame_count - 1 > 1 THEN frame_count - 1 ELSE 1)

(* << start_time, end_time >> of a path (lines 405-411) *)
PathWindow(path, use_global, global_start, global_end) ==
    IF use_global THEN << global_start, global_end >>
    ELSE << Get(path, "startTime", Zero), Get(path, "endTime", One) >>

(* mutant: the default visibility mode is static *)
VisibilityMode_DefaultStatic(path) == Get(path, "visibilityMode", "static")
VisibilityMode(path) == Get(path, "visibilityMode", "pop")

Draw(p, rotation) == << [x |-> p.x, y |-> p.y, rotation |-> rotation] >>
Skipped == << >>

(* mutant: a static path outside its window is always held at the start pose *)
StaticPose_HoldsStart(points, global_t, start_time, end_time, rotation_speed) ==
    Draw(interpolate_path(points, Zero), Zero)
(* mutant: the static branch tests the end of the window, not its start *)
StaticPose_TestsEnd(points, global_t, start_time, end_time, rotation_speed) ==
    IF RLt(end_time, global_t)
    THEN Draw(interpolate_path(points, One), RMul(rotation_speed, I(360)))
    ELSE Draw(interpolate_path(points, Zero), Zero)
(* the static branch (lines 432-439) *)
StaticPose(points, global_t, start_time, end_time, rotation_speed) ==
    IF RLt(global_t, start_time)
    THEN Draw(interpolate_path(points, Zero), Zero)
    ELSE Draw(interpolate_path(points, One), RMul(rotation_speed, I(360)))

(* the body of the per-path loop (lines 400-447): Skipped when the loop     *)
(* continues without drawing, else the draw_shape call's centre and rotation *)
DrawPath(path, global_t, start_time, end_time, rotation_speed) ==
    LET points == Get(path, "points", << >>)
        interpolation == Get(path, "interpolation", "linear")
        visibility_mode == VisibilityMode(path)
        is_in_timeline == RLe(start_time, global_t) /\ RLe(global_t, end_time)
    IN  IF Len(points) = 0 THEN Skipped
        ELSE IF visibility_mode = "pop" /\ ~ is_in_timeline THEN Skipped
        ELSE IF is_in_timeline /\ RLt(start_time, end_time) THEN
            LET local_t == RDiv(RSub(global_t, start_time), RSub(end_time, start_time))
                eased_t == apply_interpolation(local_t, interpolation)
            IN  Draw(interpolate_path(points, eased_t),
                     RMul(RMul(rotation_speed, eased_t), I(360)))
        ELSE IF visibility_mode = "static" THEN
            StaticPose(points, global_t, start_time, end_time, rotation_speed)
        ELSE Draw(interpolate_path(points, Zero), Zero)

(* draws[k] is what the frame draws for path k, in path order *)
FrameDraws(f) ==
    [k \in 1..Len(scaled_paths) |->
        LET w == PathWindow(scaled_paths[k], use_global_timeline,
                            global_start_time, global_end_time)
        IN  DrawPath(scaled_paths[k], GlobalT(f, args.frame_count), w[1], w[2],
                     args.rotation_speed)]

RenderFrame ==
    /\ pc = "frames"
    /\ frame < args.frame_count
    /\ images_list' = Append(images_list,
                             [width |-> args.frame_width, height |-> args.frame_height,
                              draws |-> FrameDraws(frame)])
    /\ masks_list' = Append(masks_list,
                            [width |-> args.frame_width, height |-> args.frame_height])
    /\ frame' = frame + 1
    /\ pc' = IF frame + 1 < args.frame_count THEN "frames" ELSE "export"
    /\ UNCHANGED << fn, args, paths, canvas_size, scaled_paths, use_global_timeline,
                    global_start_time, global_end_time, coord_tracks, result >>

(* ------------------------ track export (lines 478-505) ----------------- *)
(* mutant: the slice leaves out its last index *)
Slice_DropsLast(s, lo, hi) ==
    LET h == IF hi - 1 < Len(s) THEN hi - 1 ELSE Len(s)
    IN  IF lo >= h THEN << >> ELSE [i \in 1..(h - lo) |-> s[lo + i]]
(* Python slice s[lo:hi] of a list, 0-based bounds with 0 <= lo *)
Slice(s, lo, hi) ==
    LET h == IF hi < Len(s) THEN hi ELSE Len(s)
    IN  IF lo >= h THEN << >> ELSE [i \in 1..(h - lo) |-> s[lo + i]]

StartIdx(global_start) == PyRound(RMul(global_start, I(LastIndex)))
EndIdx(global_start, global_end) ==
    LET start_idx == StartIdx(global_start)
        end_idx == PyRound(RMul(global_end, I(LastIndex)))
    IN  IF end_idx <= start_idx THEN start_idx + 1 ELSE end_idx

TrackPoints(path, use_global, global_start, global_end) ==
    LET points == Get(path, "points", << >>)
        resampled_points == resample_path_uniform(points, NumSamples)
    IN  IF use_global /\ Len(points) > 1 /\ ~ Get(path, "isSinglePoint", FALSE) THEN
            LET windowed == Slice(resampled_points, StartIdx(global_start),
                                  EndIdx(global_start, global_end) + 1)
            IN  IF Len(windowed) >= 2
                THEN resample_path_uniform(windowed, NumSamples)
                ELSE resampled_points
        ELSE resampled_points

TrackCoords(resampled_points) ==
    [i \in 1..Len(resampled_points) |->
        [x |-> PyRound(resampled_points[i].x), y |-> PyRound(resampled_points[i].y)]]

ExportTrack ==
    /\ pc = "export"
    /\ Len(coord_tracks) < Len(scaled_paths)
    /\ coord_tracks' =
           Append(coord_tracks,
                  TrackCoords(TrackPoints(scaled_paths[Len(coord_tracks) + 1],
                                          use_global_timeline, global_start_time,
                                          global_end_time)))
    /\ UNCHANGED << fn, args, pc, paths, canvas_size, scaled_paths, use_global_timeline,
                    global_start_time, global_end_time, frame, images_list,
                    masks_list, result >>

Return ==
    /\ pc = "export"
    /\ Len(coord_tracks) = Len(scaled_paths)
    /\ result' = [images |-> images_list, masks |-> masks_list,
                  coordinates |-> coord_tracks]
    /\ pc' = "done"
    /\ UNCHANGED << fn, args, paths, canvas_size, scaled_paths, use_global_timeline,
                    global_start_time, global_end_time, frame, images_list,
                    masks_list, coord_tracks >>

Next ==
    \/ ParsePathsData
    \/ ParseRaises
    \/ ScalePaths
    \/ RescalePaths
    \/ SetGlobalTimeline
    \/ RenderFrame
    \/ ExportTrack
    \/ Return

Spec == Init /\ [][Next]_vars

TypeOK ==
    /\ pc \in {"parse", "scale", "rescale", "timeline", "frames", "export",
               "done", "raised"}
    /\ frame \in 0..args.frame_count
    /\ Len(images_list) = frame
    /\ Len(masks_list) = frame
    /\ Len(coord_tracks) <= Len(scaled_paths)

(* ======================== properties =================================== *)
Frames == 1..Len(images_list)
FrameT(f) == GlobalT(f - 1, args.frame_count)
DrawOf(f, k) == images_list[f].draws[k]
PointsOf(k) == Get(scaled_paths[k], "points", << >>)
WindowOf(k) == PathWindow(scaled_paths[k], use_global_timeline,
                          global_start_time, global_end_time)
InWindow(f, k) == RLe(WindowOf(k)[1], FrameT(f)) /\ RLe(FrameT(f), WindowOf(k)[2])
Rendered == pc \in {"frames", "export", "done"}
IsAnchor(k) == Len(PointsOf(k)) = 1 \/ Get(scaled_paths[k], "isSinglePoint", FALSE) = TRUE
IsMotion(k) == Len(PointsOf(k)) > 1 /\ Get(scaled_paths[k], "isSinglePoint", FALSE) # TRUE
RoundPt(p) == [x |-> PyRound(p.x), y |-> PyRound(p.y)]
At(p, rotation) == << [x |-> p.x, y |-> p.y, rotation |-> rotation] >>

(* C1: animate_paths returns one track per input path, and every track     *)
(* holds exactly 121 points, whatever the number of points in the path.    *)
C1_OneTrackOf121PerPath ==
    pc = "done" =>
        /\ Len(result.coordinates) = Len(paths)
        /\ \A k \in 1..Len(result.coordinates) :
               Len(result.coordinates[k]) = NumSamples

(* C2: a path with exactly one point or isSinglePoint = true is a fixed    *)
(* anchor: it is drawn at the same position in every frame in which it is  *)
(* drawn, and all points of its exported track are the same point.         *)
C2_AnchorIsFixed ==
    \A k \in 1..Len(scaled_paths) :
        (Rendered /\ IsAnchor(k)) =>
            /\ \A f1, f2 \in Frames :
                   (DrawOf(f1, k) # Skipped /\ DrawOf(f2, k) # Skipped) =>
                       /\ DrawOf(f1, k)[1].x = DrawOf(f2, k)[1].x
                       /\ DrawOf(f1, k)[1].y = DrawOf(f2, k)[1].y
            /\ k <= Len(coord_tracks) =>
                   \A i, j \in 1..Len(coord_tracks[k]) :
                       coord_tracks[k][i] = coord_tracks[k][j]

(* C3: whenever the global timeline override is active, the effective      *)
(* window satisfies 0 <= start < end <= 1; 80/20 gives [0.2, 0.8] and      *)
(* 50/50 gives [0.5, 0.51].                                                *)
C3_OverrideWindowNonEmpty ==
    (Rendered /\ use_global_timeline) =>
        /\ RLe(Zero, global_start_time)
        /\ RLt(global_start_time, global_end_time)
        /\ RLe(global_end_time, One)
        /\ (args.start_time_percent = I(80) /\ args.end_time_percent = I(20)) =>
               (global_start_time = << 1, 5 >> /\ global_end_time = << 4, 5 >>)
        /\ (args.start_time_percent = I(50) /\ args.end_time_percent = I(50)) =>
               (global_start_time = << 1, 2 >> /\ global_end_time = << 51, 100 >>)

(* C4 as stated: a path with at least one point is left undrawn in a frame  *)
(* if and only if its visibilityMode is pop and global_t lies outside its   *)
(* window; an unspecified visibilityMode is drawn in every frame.           *)
C4_Original ==
    \A f \in Frames : \A k \in 1..Len(scaled_paths) :
        Len(PointsOf(k)) >= 1 =>
            (DrawOf(f, k) = Skipped
                <=> (/\ "visibilityMode" \in DOMAIN scaled_paths[k]
                     /\ scaled_paths[k]["visibilityMode"] = "pop"
                     /\ ~ InWindow(f, k)))

(* C4 amended: a path with at least one point is left undrawn in a frame if *)
(* and only if its visibilityMode is pop or unspecified and global_t lies   *)
(* outside its window.                                                      *)
C4_UndrawnIffPopOrUnspecifiedOutsideWindow ==
    \A f \in Frames : \A k \in 1..Len(scaled_paths) :
        Len(PointsOf(k)) >= 1 =>
            (DrawOf(f, k) = Skipped
                <=> (/\ \/ "visibilityMode" \notin DOMAIN scaled_paths[k]
                        \/ scaled_paths[k]["visibilityMode"] = "pop"
                     /\ ~ InWindow(f, k)))

C4_Witness ==
    \E f \in Frames : \E k \in 1..Len(scaled_paths) :
        /\ Len(PointsOf(k)) >= 1
        /\ "visibilityMode" \notin DOMAIN scaled_paths[k]
        /\ ~ InWindow(f, k)
        /\ DrawOf(f, k) = Skipped

(* C5: a static path with window start < end is drawn at its first point    *)
(* with rotation 0 while global_t < start, at its last point with rotation  *)
(* rotation_speed * 360 while global_t > end, and inside the window at the  *)
(* arc-length position eased(local_t) with rotation                         *)
(* rotation_speed * eased(local_t) * 360.                                   *)
C5_StaticHoldsStartAndEndPose ==
    \A f \in Frames : \A k \in 1..Len(scaled_paths) :
        LET pts == PointsOf(k)
            w == WindowOf(k)
            g == FrameT(f)
            eased == apply_interpolation(RDiv(RSub(g, w[1]), RSub(w[2], w[1])),
                                         Get(scaled_paths[k], "interpolation", "linear"))
        IN  (/\ Len(pts) >= 1
             /\ Get(scaled_paths[k], "visibilityMode", "") = "static"
             /\ RLt(w[1], w[2])) =>
                /\ RLt(g, w[1]) => DrawOf(f, k) = At(pts[1], Zero)
                /\ RLt(w[2], g) =>
                       DrawOf(f, k) = At(pts[Len(pts)], RMul(args.rotation_speed, I(360)))
                /\ g = w[1] => DrawOf(f, k) = At(pts[1], Zero)
                /\ g = w[2] =>
                       DrawOf(f, k) = At(pts[Len(pts)], RMul(args.rotation_speed, I(360)))
                /\ InWindow(f, k) =>
                       DrawOf(f, k) = At(interpolate_path(pts, eased),
                                         RMul(RMul(args.rotation_speed, eased), I(360)))

C5_Witness ==
    \E f \in Frames : \E k \in 1..Len(scaled_paths) :
        LET pts == PointsOf(k)
        IN  /\ Len(pts) > 1
            /\ pts[1] # pts[Len(pts)]
            /\ Get(scaled_paths[k], "visibilityMode", "") = "static"
            /\ RLt(WindowOf(k)[1], WindowOf(k)[2])
            /\ RLt(WindowOf(k)[2], FrameT(f))
            /\ args.rotation_speed # Zero
            /\ DrawOf(f, k) = At(pts[Len(pts)], RMul(args.rotation_speed, I(360)))

(* C6: with the override active, the exported track of a motion path traces *)
(* the positions the renderer draws over the window: up to rounding,         *)
(* track[0] is the position drawn at global_t = start and track[120] the     *)
(* position drawn at global_t = end.                                         *)
C6_TrackTracesRenderedWindow ==
    (pc = "done" /\ use_global_timeline) =>
        \A k \in 1..Len(scaled_paths) : IsMotion(k) =>
            \A f \in Frames :
                /\ FrameT(f) = global_start_time =>
                       /\ DrawOf(f, k) # Skipped
                       /\ coord_tracks[k][1] = RoundPt(DrawOf(f, k)[1])
                /\ FrameT(f) = global_end_time =>
                       /\ DrawOf(f, k) # Skipped
                       /\ coord_tracks[k][NumSamples] = RoundPt(DrawOf(f, k)[1])

C8_BadPayloadNeverFails ==
    args.paths_data.kind # "record" =>
        /\ pc # "raised"
        /\ pc = "done" =>
               /\ Len(result.images) = args.frame_count
               /\ Len(result.masks) = args.frame_count
               /\ \A f \in 1..Len(result.images) :
                      /\ result.images[f].width = args.frame_width
                      /\ result.images[f].height = args.frame_height
                      /\ result.masks[f].width = args.frame_width
                      /\ result.masks[f].height = args.frame_height
               /\ result.coordinates = << >>

(* the end-to-end scenario of C9: one path (0,0),(10,0),(10,10) with no      *)
(* timing, easing or visibility keys, frame_count = 3, no override, no       *)
(* length rescaling                                                          *)
C9_Scenario ==
    /\ args.paths_data.kind = "record"
    /\ Get(args.paths_data.obj, "paths", << >>) = << [points |-> Corner] >>
    /\ args.frame_count = 3
    /\ args.start_time_percent = Zero
    /\ args.end_time_percent = I(100)
    /\ args.override_path_length <= 0
    /\ args.path_length_multiplier = One
InFrameSpace(x, y) == Pt(RMul(I(x), ScaleX), RMul(I(y), ScaleY))
DrawnAt(f, k, p) ==
    /\ DrawOf(f, k) # Skipped
    /\ DrawOf(f, k)[1].x = p.x
    /\ DrawOf(f, k)[1].y = p.y

(* C9 as stated: in the scenario the shape is drawn in all three frames, at  *)
(* (0,0) scaled in frame 0, at (5,0) in frame 1 and at (10,10) scaled in     *)
(* frame 2.                                                                  *)
C9_Original ==
    (pc = "done" /\ C9_Scenario) =>
        /\ Len(images_list) = 3
        /\ DrawnAt(1, 1, InFrameSpace(0, 0))
        /\ DrawnAt(2, 1, InFrameSpace(5, 0))
        /\ DrawnAt(3, 1, InFrameSpace(10, 10))

(* C9 amended: in the scenario the shape is drawn in all three frames, at    *)
(* (0,0) scaled in frame 0, at (10,10) scaled in frame 2, and in frame 1 at  *)
(* the arc-length midpoint of the scaled path, which is the corner (10,0)    *)
(* scaled when the x and y scale factors are equal (in general the point at  *)
(* distance 5*(scale_x + scale_y) along the scaled path).                    *)
C9_MidFrameAtArcMidpoint ==
    (pc = "done" /\ C9_Scenario) =>
        LET five == I(5)
            mid == IF RLe(ScaleY, ScaleX)
                   THEN Pt(RMul(five, RAdd(ScaleX, ScaleY)), Zero)
                   ELSE Pt(RMul(I(10), ScaleX), RMul(five, RSub(ScaleY, ScaleX)))
        IN  /\ Len(images_list) = 3
            /\ DrawnAt(1, 1, InFrameSpace(0, 0))
            /\ DrawnAt(2, 1, mid)
            /\ ScaleX = ScaleY => DrawnAt(2, 1, InFrameSpace(10, 0))
            /\ DrawnAt(3, 1, InFrameSpace(10, 10))

C9_Witness ==
    /\ pc = "done"
    /\ C9_Scenario
    /\ ScaleX = ScaleY
    /\ ScaleX # One
    /\ DrawnAt(2, 1, InFrameSpace(10, 0))

HasInvertedTiming(k) ==
    /\ "startTime" \in DOMAIN scaled_paths[k]
    /\ "endTime" \in DOMAIN scaled_paths[k]
    /\ RLt(scaled_paths[k]["endTime"], scaled_paths[k]["startTime"])

(* C10 as stated: with the override inactive, a path with endTime <          *)
(* startTime is drawn in every frame at its first point with rotation 0,     *)
(* whatever its visibilityMode.                                              *)
C10_Original ==
    (Rendered /\ ~ use_global_timeline) =>
        \A f \in Frames : \A k \in 1..Len(scaled_paths) :
            (Len(PointsOf(k)) >= 1 /\ HasInvertedTiming(k)) =>
                DrawOf(f, k) = At(PointsOf(k)[1], Zero)

(* C10 amended: with the override inactive, a path with endTime < startTime  *)
(* is never animated: if its visibilityMode is pop or unspecified it is      *)
(* skipped in every frame; if it is static it is drawn at its first point    *)
(* with rotation 0 while global_t < startTime and at its last point with     *)
(* rotation rotation_speed * 360 from global_t >= startTime on; for any      *)
(* other mode it is drawn at its first point with rotation 0 in every frame. *)
C10_InvertedTimingByVisibilityMode ==
    (Rendered /\ ~ use_global_timeline) =>
        \A f \in Frames : \A k \in 1..Len(scaled_paths) :
            LET pts == PointsOf(k)
                path == scaled_paths[k]
            IN  (Len(pts) >= 1 /\ HasInvertedTiming(k)) =>
                    IF "visibilityMode" \notin DOMAIN path \/ path["visibilityMode"] = "pop"
                    THEN DrawOf(f, k) = Skipped
                    ELSE IF path["visibilityMode"] = "static"
                    THEN IF RLt(FrameT(f), path["startTime"])
                         THEN DrawOf(f, k) = At(pts[1], Zero)
                         ELSE DrawOf(f, k) = At(pts[Len(pts)],
                                                RMul(args.rotation_speed, I(360)))
                    ELSE DrawOf(f, k) = At(pts[1], Zero)

C10_Witness ==
    /\ ~ use_global_timeline
    /\ \E f \in Frames : \E k \in 1..Len(scaled_paths) :
           LET pts == PointsOf(k)
           IN  /\ Len(pts) > 1
               /\ pts[1] # pts[Len(pts)]
               /\ HasInvertedTiming(k)
               /\ Get(scaled_paths[k], "visibilityMode", "") = "static"
               /\ RLt(FrameT(f), scaled_paths[k]["startTime"])
               /\ RLt(scaled_paths[k]["endTime"], FrameT(f))
               /\ DrawOf(f, k) = At(pts[1], Zero)

(* ============ direct calls of the two arc-length walks ================= *)
MaxSamples == 7

RepeatedMiddle == << IPt(0, 0), IPt(6, 0), IPt(6, 0), IPt(6, 6) >>
RepeatedFirst == << IPt(0, 0), IPt(0, 0), IPt(3, 4) >>
RepeatedLast == << IPt(0, 0), IPt(3, 4), IPt(3, 4) >>
ThereAndBack == << IPt(0, 0), IPt(4, 0), IPt(0, 0) >>
AllCoincident == << IPt(5, 5), IPt(5, 5), IPt(5, 5) >>
FnPolylines == { OnePoint, Straight, Diagonal, Corner, Coincident, AllCoincident,
                 RepeatedMiddle, RepeatedFirst, RepeatedLast, ThereAndBack }

(* fn.resampled is resample_path_uniform(fn.points, fn.n) once called;      *)
(* fn.interpolated[i+1] is interpolate_path(fn.points, i/(n-1)) for the     *)
(* calls made so far                                                        *)
FnInit ==
    /\ args = DefaultArgs
    /\ pc = "fn"
    /\ paths = << >>
    /\ canvas_size = Unset
    /\ scaled_paths = << >>
    /\ use_global_timeline = FALSE
    /\ global_start_time = Unset
    /\ global_end_time = Unset
    /\ frame = 0
    /\ images_list = << >>
    /\ masks_list = << >>
    /\ coord_tracks = << >>
    /\ result = Unset
    /\ \E p \in FnPolylines : \E n \in (2..MaxSamples) \cup {NumSamples} :
           fn = [points |-> p, n |-> n, called |-> FALSE, resampled |-> << >>,
                 interpolated |-> << >>]

FnUnchanged ==
    UNCHANGED << args, pc, paths, canvas_size, scaled_paths, use_global_timeline,
                 global_start_time, global_end_time, frame, images_list,
                 masks_list, coord_tracks, result >>

CallResample ==
    /\ pc = "fn"
    /\ ~ fn.called
    /\ fn' = [fn EXCEPT !.called = TRUE,
                        !.resampled = resample_path_uniform(fn.points, fn.n)]
    /\ FnUnchanged

CallInterpolate ==
    /\ pc = "fn"
    /\ Len(fn.interpolated) < fn.n
    /\ fn' = [fn EXCEPT !.interpolated =
                 Append(fn.interpolated,
                        interpolate_path(fn.points,
                                         Rat(Len(fn.interpolated), fn.n - 1)))]
    /\ FnUnchanged

FnNext ==
    \/ CallResample
    \/ CallInterpolate

SpecFn == FnInit /\ [][FnNext]_vars

Rescaled == pc \in {"timeline", "frames", "export", "done"}
(* the points of path k before the length-rescaling stage *)
OriginalPoints(k) == ScaledPath(paths[k], ScaleX, ScaleY)["points"]
TargetLength(k) ==
    LET base == IF args.override_path_length > 0 THEN I(args.override_path_length)
                ELSE get_path_arc_length(OriginalPoints(k))
    IN  RMul(base, args.path_length_multiplier)
Displacement(points, i) ==
    Pt(RSub(points[i + 1].x, points[i].x), RSub(points[i + 1].y, points[i].y))
(* the points are the original ones with every displacement multiplied by   *)
(* factor, from the same first point, and their arc length is length        *)
RescaledTo(k, factor, length) ==
    LET orig == OriginalPoints(k)
        new == PointsOf(k)
    IN  /\ Len(new) = Len(orig)
        /\ new[1] = orig[1]
        /\ \A i \in 1..(Len(orig) - 1) :
               Displacement(new, i) =
                   Pt(RMul(Displacement(orig, i).x, factor),
                      RMul(Displacement(orig, i).y, factor))
        /\ get_path_arc_length(new) = length

(* C12 as stated: after the length-rescaling stage every motion path with    *)
(* original arc length > 0 keeps its first point, has arc length             *)
(* target = base * path_length_multiplier (base = override_path_length if    *)
(* > 0, else the original arc length), and every inter-point displacement is *)
(* the original one multiplied by target / original_length.                  *)
C12_Original ==
    Rescaled =>
        \A k \in 1..Len(scaled_paths) :
            LET original_length == get_path_arc_length(OriginalPoints(k))
            IN  (IsMotion(k) /\ RLt(Zero, original_length)) =>
                    RescaledTo(k, RDiv(TargetLength(k), original_length),
                               TargetLength(k))

(* C12 amended: the same, whenever |target - original_length| >= 1e-6; when  *)
(* the two differ by less than 1e-6 the path is left unchanged, so its arc   *)
(* length stays original_length (within 1e-6 of target).                     *)
C12_RescaledUnlessWithinEpsilon ==
    Rescaled =>
        \A k \in 1..Len(scaled_paths) :
            LET original_length == get_path_arc_length(OriginalPoints(k))
                target == TargetLength(k)
            IN  (IsMotion(k) /\ RLt(Zero, original_length)) =>
                    IF RLe(Epsilon, RAbs(RSub(target, original_length)))
                    THEN RescaledTo(k, RDiv(target, original_length), target)
                    ELSE /\ PointsOf(k) = OriginalPoints(k)
                         /\ RescaledTo(k, One, original_length)

C12_Witness ==
    /\ Rescaled
    /\ \E k \in 1..Len(scaled_paths) :
           /\ IsMotion(k)
           /\ Len(PointsOf(k)) = 3
           /\ args.override_path_length > 0
           /\ args.path_length_multiplier = I(2)
           /\ ScaleX # ScaleY
           /\ get_path_arc_length(PointsOf(k)) = I(2 * args.override_path_length)
           /\ get_path_arc_length(OriginalPoints(k)) # I(2 * args.override_path_length)
           /\ PointsOf(k)[1] = OriginalPoints(k)[1]

====
